---- MODULE Spec2Model ----
(***************************************************************************)
(* Model of src/lighter_bot.py: the delta-neutral trading bot.             *)
(*                                                                         *)
(* LighterTradingBot runs on one asyncio event loop.  A coroutine runs     *)
(* without interruption from one await to the next, so every action below  *)
(* is the code between two awaits of one coroutine.  Two callers invoke    *)
(* execute_delta_neutral_session: run_daily_cycle ("sched") and any other  *)
(* task of the application ("ext").  Every await of a session is either    *)
(* one HTTP attempt of _make_request or an asyncio.sleep.                  *)
(*                                                                         *)
(* Time is counted in abstract ticks.  Identifiers the exchange hands back *)
(* are abstracted to "set / not set".  The millisecond clock _get_nonce    *)
(* reads is a logical clock: it is read when a request call begins, a      *)
(* request call or a sleep that has ended took at least one millisecond,   *)
(* and only the order of the readings matters, so the clock counts the     *)
(* request calls and sleeps the invocation in progress has completed.      *)
(***************************************************************************)
EXTENDS Integers, Sequences, FiniteSets, TLC

\* ------------------------------------------------------------------ bounds
MaxRetriesBound == 3      \* max_retries is configured in 0..MaxRetriesBound
MaxSessionDuration == 2   \* largest configured max_session_duration, in ticks
MaxDailySessions == 2     \* largest configured max_daily_sessions
MaxPositionSize == 2      \* largest configured max_position_size, in size units
DayLength == 2            \* the 24 hours of run_daily_cycle, in ticks
MaxOpenOrders == 2        \* longest open-order listing the exchange returns
MaxExtCalls == 1          \* invocations made by tasks other than the scheduler
MaxStops == 1             \* calls of stop()

\* ------------------------------------------------------------ configuration
\* TradingConfig, and the surroundings of the bot: how often other tasks call
\* execute_delta_neutral_session and stop(), how long a listing the exchange
\* returns, and which ways the coin of a session (account1_long) falls.  The
\* bot is explored from a plain configuration in plain surroundings, and from
\* each way of widening one side of them: the retry budget, what a session
\* can draw (with stop() called), the listings, the sessions per day (with
\* stop() called), the other callers, the shortest session.
PlainConfig ==
  [max_retries |-> 1, symbols |-> {"ETH-USDC"},
   min_session_duration |-> 1, max_session_duration |-> 1,
   min_daily_sessions |-> 1, max_daily_sessions |-> 1,
   max_position_size |-> 1]

PlainSurroundings == [ext |-> 0, stops |-> 0, listing |-> 1, flips |-> {FALSE}]

Scenarios ==
  {<<[PlainConfig EXCEPT !.max_retries = r], PlainSurroundings>> :
     r \in 0..MaxRetriesBound}
  \cup
  {<<[PlainConfig EXCEPT !.symbols = {"ETH-USDC", "BTC-USDC"},
                         !.max_session_duration = MaxSessionDuration,
                         !.max_position_size = MaxPositionSize],
     [PlainSurroundings EXCEPT !.stops = MaxStops, !.flips = BOOLEAN]>>,
   <<PlainConfig, [PlainSurroundings EXCEPT !.listing = MaxOpenOrders]>>,
   <<[PlainConfig EXCEPT !.max_daily_sessions = MaxDailySessions],
     [PlainSurroundings EXCEPT !.stops = MaxStops]>>,
   <<PlainConfig, [PlainSurroundings EXCEPT !.ext = MaxExtCalls]>>,
   <<[PlainConfig EXCEPT !.min_session_duration = MaxSessionDuration,
                         !.max_session_duration = MaxSessionDuration],
     PlainSurroundings>>}


Invokers == {"sched", "ext"}
Accounts == {0, 1}
NoSession == 0

VARIABLES
  trading_config,  \* self.trading_config
  env,             \* the surroundings: what the other tasks and the exchange may do
  sessions,        \* self.sessions: the history, a sequence of Session records
  active_session,  \* self.active_session: index into sessions, NoSession for None
  is_running,      \* self.is_running
  cyclePc,         \* position of run_daily_cycle
  daily_sessions,  \* local of run_daily_cycle
  session_num,     \* loop variable of run_daily_cycle
  delayLeft,       \* ticks left of the inter-session asyncio.sleep(delay)
  pc,              \* per invoker: position of execute_delta_neutral_session
  loc,             \* per invoker: its locals, and what it has issued so far; once it
                   \* has returned, how its cleanup went
  attempt,         \* per invoker: loop variable of _make_request
  http,            \* the latest _make_request call of the session in progress, as seen from outside
  request,         \* per invoker: what the _make_request call it awaits built on entry
  clock,           \* int(time.time() * 1000), as a logical clock of the invocation in progress
  last_nonce,      \* per account: the X-NONCE of the latest request sent for it, -1 for none
  slept,           \* time units the latest _make_request call has slept between its attempts
  slotsRun,        \* slots run_daily_cycle has run so far
  extCalls,        \* invocations made so far by other tasks
  stops            \* calls of stop() so far

vars == <<trading_config, env, sessions, active_session, is_running, cyclePc,
          daily_sessions, session_num, delayLeft, pc, loc, attempt, http,
          request, clock, last_nonce, slept, slotsRun, extCalls, stops>>

schedVars == <<cyclePc, daily_sessions, session_num, delayLeft, slotsRun>>
frameVars == <<pc, loc, attempt, http>>
wireVars == <<request, clock, last_nonce, slept>>

\* ------------------------------------------------------------------ Session
Session(sym, long, dur) ==
  [symbol |-> sym, account1_long |-> long, planned_duration |-> dur,
   end_time |-> FALSE, account1_order_id |-> FALSE,
   account2_order_id |-> FALSE, closed |-> FALSE, state |-> "Opening"]

ActiveStates == {"Opening", "Holding", "Closing"}

NoCao == [account |-> 0, listed |-> 0, cancelled |-> 0, failed |-> FALSE,
          done |-> FALSE]

NullLoc ==
  \* filled: how many of the place_order calls in orders have returned;
  \* cleanup: "done" when the close_all_orders calls so far ended with no
  \* request failed, "failed" when one of their requests failed
  [sid |-> 0, symbol |-> "", account1_long |-> FALSE, duration |-> 0,
   position_size |-> 0, order1 |-> "unset", wait |-> 0, cacct |-> 0,
   open_orders |-> <<>>, ci |-> 0, orders |-> <<>>, cleaned |-> <<>>,
   cancels |-> <<>>, failed |-> FALSE, cao |-> NoCao, filled |-> 0,
   cleanup |-> "none"]

\* ------------------------------------------------------- Request Executor
NoAttempt == [transport |-> FALSE, status |-> 0, body |-> "none"]

\* What one attempt of the connection's request() can come back with.
Outcomes ==
  {[transport |-> TRUE, status |-> 0, body |-> "none"]} \cup
  [transport : {FALSE}, status : {200, 500},
   body : {"json", "not_json_type", "malformed"}]

NoCall == [result |-> "none", attempts |-> 0, transient |-> 0, last |-> NoAttempt]

\* response.json(): aiohttp raises ContentTypeError, a ClientError, when the
\* response's content type is not JSON, and json.JSONDecodeError when the
\* body does not parse.
Json(body) ==
  CASE body = "json" -> "data"
    [] body = "not_json_type" -> "ContentTypeError"
    [] OTHER -> "JSONDecodeError"

\* One pass through the try block of _make_request.
AttemptResult(o) ==
  IF o.transport THEN "ClientError"
  ELSE IF Json(o.body) = "ContentTypeError" THEN "ClientError"
  ELSE IF Json(o.body) = "JSONDecodeError" THEN "JSONDecodeError"
  ELSE IF o.status # 200 THEN "ApiError"
  ELSE "Return"

\* `if attempt == self.trading_config.max_retries - 1: raise`
LastAttempt(a) == a = trading_config.max_retries - 1

\* How the call goes on after an attempt: "retry" or the call's result.
AfterAttempt(o, a) ==
  IF AttemptResult(o) = "ClientError" /\ ~LastAttempt(a) THEN "retry"
  ELSE AttemptResult(o)

RaisedNever(res) == FALSE

Raised(res) == res \in {"ApiError", "ClientError", "JSONDecodeError"}

RequestPcs == {"open_price", "open0", "open1", "close0", "close1",
               "close_price", "cleanup_list", "cleanup_cancel"}

\* `await asyncio.sleep(2 ** attempt)`
BackoffFromNext(a) == 2 ^ (a + 1)

Backoff(a) == 2 ^ a

\* -------------------------------------------------------------------- Signer
\* main(): the two AccountConfig objects.
account_configs ==
  [i \in Accounts |->
     IF i = 0
     THEN [account_name |-> "Account1", api_key |-> "account1_api_key",
           secret_key |-> "account1_secret_key"]
     ELSE [account_name |-> "Account2", api_key |-> "account2_api_key",
           secret_key |-> "account2_secret_key"]]

\* One aiohttp.ClientSession per account.
sessions_per_account == [i \in Accounts |-> [ClientSession |-> i]]

\* hmac.new(secret_key, payload, sha256).hexdigest(): the digest stands for
\* the key and the payload it was computed from.
GenerateSignature(secret_key, payload) ==
  [hmac_sha256_key |-> secret_key, payload |-> payload]

AccountConfigOfFirst(account_index) == account_configs[0]

\* `account_config = self.account_configs[account_index]`
AccountConfig(account_index) == account_configs[account_index]

SignEveryPath(endpoint) == FALSE

\* `endpoint.startswith("/public")`, an endpoint being its path segments.
IsPublic(endpoint) == endpoint # <<>> /\ endpoint[1] = "public"

NoNonce == -1

NoRequest ==
  [account_index |-> -1, method |-> "", endpoint |-> <<>>, nonce |-> NoNonce,
   headers |-> [h \in {} |-> ""], connection |-> [ClientSession |-> -1]]

\* _make_request up to its loop: the headers, built once per call, and the
\* connection every attempt of the call is sent on; now is what _get_nonce
\* reads.
BuildRequest(account_index, method, endpoint, now) ==
  LET account_config == AccountConfig(account_index)
      headers == ("X-API-KEY" :> account_config.api_key)
                   @@ ("Content-Type" :> "application/json")
      nonce == now
      signature_payload == <<ToString(nonce), method>> \o endpoint
      signature == GenerateSignature(account_config.secret_key, signature_payload)
  IN [account_index |-> account_index, method |-> method, endpoint |-> endpoint,
      nonce |-> IF IsPublic(endpoint) THEN NoNonce ELSE nonce,
      headers |-> IF ~IsPublic(endpoint)
                  THEN headers @@ ("X-NONCE" :> ToString(nonce))
                               @@ ("X-SIGNATURE" :> signature)
                  ELSE headers,
      connection |-> sessions_per_account[account_index]]

\* ------------------------------------------------------ Market/Order Gateway
get_market_data(symbol, now) ==
  BuildRequest(0, "GET", <<"public", "markets", symbol>>, now)

get_balance(account_index, now) ==
  BuildRequest(account_index, "GET", <<"private", "account", "balance">>, now)

place_order(account_index, now) ==
  BuildRequest(account_index, "POST", <<"private", "orders">>, now)

cancel_order(account_index, order_id, now) ==
  BuildRequest(account_index, "DELETE",
               <<"private", "orders", ToString(order_id)>>, now)

get_open_orders(account_index, now) ==
  BuildRequest(account_index, "GET", <<"private", "orders", "open">>, now)

\* The request of the gateway call that execute_delta_neutral_session awaits
\* at position p with locals l.
RequestOf(p, l, now) ==
  CASE p \in {"open_price", "close_price"} -> get_market_data(l.symbol, now)
    [] p \in {"open0", "open1", "close0", "close1"} ->
         place_order(l.orders[Len(l.orders)].account, now)
    [] p = "cleanup_list" -> get_open_orders(l.cacct, now)
    [] p = "cleanup_cancel" -> cancel_order(l.cacct, l.open_orders[l.ci], now)
    [] OTHER -> NoRequest

\* The sides execute_delta_neutral_session passes to place_order.
OpeningSide(acct, long) ==
  IF long THEN (IF acct = 0 THEN "BUY" ELSE "SELL")
  ELSE (IF acct = 0 THEN "SELL" ELSE "BUY")

ClosingSideOfShortOnly(acct, long) ==
  IF long THEN (IF acct = 0 THEN "BUY" ELSE "SELL")
  ELSE (IF acct = 0 THEN "BUY" ELSE "SELL")

ClosingSide(acct, long) ==
  IF long THEN (IF acct = 0 THEN "SELL" ELSE "BUY")
  ELSE (IF acct = 0 THEN "BUY" ELSE "SELL")

\* place_order(acct, symbol, side, OrderType.MARKET, position_size): the order
\* is noted as issued when the call is made.
PlaceOrder(l, acct, leg) ==
  [l EXCEPT !.orders = Append(@,
     [account |-> acct, symbol |-> l.symbol,
      side |-> IF leg = "open" THEN OpeningSide(acct, l.account1_long)
               ELSE ClosingSide(acct, l.account1_long),
      type |-> "MARKET", quantity |-> l.position_size, leg |-> leg])]

\* random.uniform(max_position_size * 0.3, max_position_size), in size units
PositionSizes ==
  {s \in 1..trading_config.max_position_size :
     10 * s >= 3 * trading_config.max_position_size}

\* The "orders" lists the exchange can answer get_open_orders with.
Listings ==
  {lst \in UNION {[1..n -> 1..env.listing] : n \in 0..env.listing} :
     \A i, j \in DOMAIN lst : lst[i] = lst[j] => i = j}

\* ------------------------------------------------------------ Session Engine
\* What a step of the coroutine leads to: its next await p, or its return
\* (fin), and whether active_session has been cleared on the way (clear).
Step(p, l, S) ==
  [pc |-> p, loc |-> l, sessions |-> S, fin |-> FALSE, clear |-> FALSE]

FinishUnlessFailed(l, S) ==
  [pc |-> "idle", loc |-> l, sessions |-> S, fin |-> TRUE,
   clear |-> S[l.sid].state # "Failed"]

\* `finally: self.active_session = None`, and the coroutine returns.
Finish(l, S) ==
  [pc |-> "idle", loc |-> l, sessions |-> S, fin |-> TRUE, clear |-> TRUE]

\* close_all_orders(acct, symbol) is called: it awaits get_open_orders.
CloseAllOrders(l, S, acct) ==
  Step("cleanup_list",
       [l EXCEPT !.cacct = acct, !.open_orders = <<>>, !.ci = 0,
                 !.cancels = <<>>, !.failed = FALSE,
                 !.cleaned = Append(@, [account |-> acct, symbol |-> l.symbol])],
       S)

\* `except Exception as e:` of execute_delta_neutral_session: the session has
\* failed, cleanup starts with account 0.
Fail(l, S) ==
  CloseAllOrders(l, [S EXCEPT ![l.sid].state = "Failed"], 0)

\* close_all_orders(l.cacct, symbol) has ended; raised says whether by an
\* exception.  Both calls stand in one try block: an exception of the first
\* goes to `except Exception as close_error`, past the second.
CloseAllDone(l, S, raised) ==
  LET m == [l EXCEPT !.cao = [account |-> l.cacct,
                              listed |-> Len(l.open_orders),
                              cancelled |-> Len(l.cancels),
                              failed |-> l.failed, done |-> ~raised],
                    !.cleanup = IF raised \/ l.failed \/ @ = "failed"
                                THEN "failed" ELSE "done"]
  IN IF raised THEN Finish(m, S)
     ELSE IF l.cacct = 0 THEN CloseAllOrders(m, S, 1)
     ELSE Finish(m, S)

\* cancel_order(l.cacct, order['id']) is called for the i-th listed order.
CancelOrder(l, S, i) ==
  Step("cleanup_cancel",
       [l EXCEPT !.ci = i,
                 !.cancels = Append(@, [account |-> l.cacct,
                                        id |-> l.open_orders[i]])],
       S)

NextCancelUnlessFailed(l, S) ==
  IF l.failed THEN CloseAllDone(l, S, TRUE)
  ELSE IF l.ci < Len(l.open_orders) THEN CancelOrder(l, S, l.ci + 1)
  ELSE CloseAllDone(l, S, FALSE)

\* The loop of close_all_orders after the i-th cancel_order ended, whether it
\* returned or raised (`except Exception as e` inside the loop).
NextCancel(l, S) ==
  IF l.ci < Len(l.open_orders) THEN CancelOrder(l, S, l.ci + 1)
  ELSE CloseAllDone(l, S, FALSE)

\* execute_delta_neutral_session from the await at position p on, once the
\* request it awaits has ended with res; x is what the step draws or is
\* handed: the random size, or the listing the exchange returned.
Flow(p, l, S, res, x) ==
  CASE p = "open_price" ->
         IF res = "Return"
         THEN Step("open0", PlaceOrder([l EXCEPT !.position_size = x], 0, "open"), S)
         ELSE Fail(l, S)    \* raised, or None['last_price']
    [] p = "open0" ->
         IF Raised(res) THEN Fail(l, S)
         ELSE Step("open1",
                   PlaceOrder([l EXCEPT !.order1 = res, !.filled = @ + 1], 1, "open"),
                   S)
    [] p = "open1" ->
         IF Raised(res) \/ l.order1 # "Return" THEN Fail(l, S)   \* None.get('id')
         ELSE IF res # "Return"
         THEN Fail(l, [S EXCEPT ![l.sid].account1_order_id = TRUE])
         ELSE Step("hold", [l EXCEPT !.wait = l.duration, !.filled = @ + 1],
                   [S EXCEPT ![l.sid].account1_order_id = TRUE,
                             ![l.sid].account2_order_id = TRUE,
                             ![l.sid].state = "Holding"])
    [] p = "close0" ->
         IF Raised(res) THEN Fail(l, S)
         ELSE Step("close1", PlaceOrder([l EXCEPT !.filled = @ + 1], 1, "close"), S)
    [] p = "close1" ->
         IF Raised(res) THEN Fail(l, S)
         ELSE Step("close_price", [l EXCEPT !.filled = @ + 1],
                   [S EXCEPT ![l.sid].end_time = TRUE, ![l.sid].closed = TRUE])
    [] p = "close_price" ->
         IF res = "Return"
         THEN Finish(l, [S EXCEPT ![l.sid].state = "Settled"])
         ELSE Fail(l, S)
    [] p = "cleanup_list" ->
         IF res # "Return" THEN CloseAllDone(l, S, TRUE)   \* raised, or None.get
         ELSE IF x = <<>> THEN CloseAllDone(l, S, FALSE)
         ELSE CancelOrder([l EXCEPT !.open_orders = x], S, 1)
    [] p = "cleanup_cancel" ->
         NextCancel([l EXCEPT !.failed = @ \/ Raised(res)], S)

\* `await asyncio.sleep(duration)` has returned: the closing pair begins.
\* What Flow draws or is handed at p when the request ended with res.
Drawn(p, res) ==
  IF p = "open_price" /\ res = "Return" THEN PositionSizes
  ELSE IF p = "cleanup_list" /\ res = "Return" THEN Listings
  ELSE {0}

HoldOver(l, S) ==
  Step("close0", PlaceOrder([l EXCEPT !.wait = 0], 0, "close"),
       [S EXCEPT ![l.sid].state = "Closing"])

SessionDurationsPastMax ==
  trading_config.min_session_duration..(trading_config.max_session_duration + 1)

\* random.randint(min_session_duration, max_session_duration)
SessionDurations ==
  trading_config.min_session_duration..trading_config.max_session_duration

NoActiveSessionCheck == FALSE

\* `if self.active_session:` at the top of execute_delta_neutral_session
SessionAlreadyActive == active_session # NoSession

\* execute_delta_neutral_session is called by f and runs to its first await:
\* it returns at once when a session is active, else it draws the session's
\* parameters, makes it the active session, appends it to the history and
\* awaits get_market_data.
Invoke(f) ==
  IF SessionAlreadyActive
  THEN UNCHANGED <<sessions, active_session, pc, loc, attempt, request>>
  ELSE \E sym \in trading_config.symbols, long \in env.flips,
          dur \in SessionDurations :
         /\ sessions' = Append(sessions, Session(sym, long, dur))
         /\ active_session' = Len(sessions) + 1
         /\ pc' = [pc EXCEPT ![f] = "open_price"]
         /\ loc' = [loc EXCEPT ![f] =
                      [NullLoc EXCEPT !.sid = Len(sessions) + 1, !.symbol = sym,
                                      !.account1_long = long, !.duration = dur]]
         /\ attempt' = [attempt EXCEPT ![f] = 0]
         /\ request' = [request EXCEPT ![f] = RequestOf("open_price", loc'[f], clock)]

\* ------------------------------------------------------------ Daily Scheduler
\* random.uniform(min_delay * 0.7, min_delay * 1.3), min_delay being
\* DayLength / n; a sleep of x ticks is over at the first whole tick >= x.
DelayChoices(n) ==
  {d \in 1..(2 * DayLength) :
     7 * DayLength <= 10 * d * n /\ 10 * (d - 1) * n < 13 * DayLength}

\* random.randint(min_daily_sessions, max_daily_sessions)
DailySessionCounts ==
  trading_config.min_daily_sessions..trading_config.max_daily_sessions

\* The slot's session has ended: `await asyncio.sleep(delay)` begins.
SlotCompleted ==
  /\ cyclePc' = "delay"
  /\ delayLeft' \in DelayChoices(daily_sessions')

NextSlotRunsUnlessFailed(n) ==
  /\ n < daily_sessions
  /\ is_running
  /\ \A i \in DOMAIN sessions : sessions[i].state # "Failed"

\* `for session_num in range(daily_sessions): if not self.is_running: break`
NextSlotRuns(n) == n < daily_sessions /\ is_running

\* The body of the loop for iteration n, up to its first await.
RunSlot(n) ==
  /\ session_num' = n
  /\ slotsRun' = slotsRun + 1
  /\ Invoke("sched")
  /\ IF SessionAlreadyActive
     THEN SlotCompleted
     ELSE cyclePc' = "session" /\ delayLeft' = 0

\* run_daily_cycle is called and runs to its first await.
StartCycle ==
  /\ cyclePc = "not_started"
  /\ is_running' = TRUE
  /\ daily_sessions' \in DailySessionCounts
  /\ RunSlot(0)
  /\ UNCHANGED <<trading_config, env, http, clock, last_nonce, slept, extCalls, stops>>

\* A tick of `await asyncio.sleep(delay)`; when the sleep returns the loop
\* goes to its next iteration, or ends.
DelayTick ==
  /\ cyclePc = "delay"
  /\ IF delayLeft > 1
     THEN /\ delayLeft' = delayLeft - 1
          /\ UNCHANGED <<cyclePc, daily_sessions, session_num, slotsRun,
                         sessions, active_session, pc, loc, attempt, request>>
     ELSE IF NextSlotRuns(session_num + 1)
     THEN /\ UNCHANGED daily_sessions
          /\ RunSlot(session_num + 1)
     ELSE /\ cyclePc' = "done"
          /\ delayLeft' = 0
          /\ session_num' = IF session_num + 1 < daily_sessions
                            THEN session_num + 1 ELSE session_num
          /\ UNCHANGED <<daily_sessions, slotsRun, sessions, active_session,
                         pc, loc, attempt, request>>
  /\ UNCHANGED <<trading_config, env, is_running, http, clock, last_nonce, slept,
                 extCalls, stops>>

\* stop()
Stop ==
  /\ stops < env.stops
  /\ is_running' = FALSE
  /\ stops' = stops + 1
  /\ UNCHANGED <<trading_config, env, sessions, active_session, schedVars, frameVars,
                 wireVars, extCalls>>

\* Another task of the application calls execute_delta_neutral_session.
ExtInvoke ==
  /\ extCalls < env.ext
  /\ pc["ext"] = "idle"
  /\ extCalls' = extCalls + 1
  /\ Invoke("ext")
  /\ UNCHANGED <<trading_config, env, is_running, schedVars, http, clock, last_nonce,
                 slept, stops>>

\* ------------------------------------------------------------ session steps
\* The frame of f goes on as r says, h being what its last request was seen
\* to do; when it returns, active_session is cleared and, for the scheduler's
\* frame, run_daily_cycle goes on.
Resume(f, r, h) ==
  /\ pc' = [pc EXCEPT ![f] = r.pc]
  /\ http' = IF r.fin THEN NoCall ELSE h
  /\ loc' = [loc EXCEPT ![f] = IF r.fin
                               THEN [NullLoc EXCEPT !.cleanup = r.loc.cleanup]
                               ELSE r.loc]
  /\ attempt' = [attempt EXCEPT ![f] = 0]
  /\ sessions' = r.sessions
  /\ active_session' = IF r.clear THEN NoSession ELSE active_session
  /\ request' = [request EXCEPT ![f] = IF r.fin THEN NoRequest
                                       ELSE RequestOf(r.pc, r.loc, clock')]
  /\ IF r.fin /\ f = "sched"
     THEN UNCHANGED <<daily_sessions, session_num, slotsRun>> /\ SlotCompleted
     ELSE UNCHANGED schedVars

\* The clock after the frame, d of its calls and sleeps later, goes on as r says.
Elapse(r, d) == clock' = IF r.fin THEN 0 ELSE clock + d

\* The attempt of f's call has put its request on the wire.
Sent(f, r) ==
  last_nonce' = IF r.fin THEN [a \in Accounts |-> NoNonce]
                ELSE IF request[f].nonce = NoNonce THEN last_nonce
                ELSE [last_nonce EXCEPT ![request[f].account_index] = request[f].nonce]

\* What the call has slept before its attempt a.
SleptBefore(a) == IF a = 0 THEN 0 ELSE slept

\* What an observer of the call notes after an attempt with outcome o.
Observe(o, a, res) ==
  [result |-> IF res = "retry" THEN "pending" ELSE res,
   attempts |-> a + 1,
   transient |-> (IF a = 0 THEN 0 ELSE http.transient) + (IF o.transport THEN 1 ELSE 0),
   last |-> o]

\* One iteration of `for attempt in range(max_retries)` of the _make_request
\* call f awaits; with max_retries = 0 the loop body never runs and the call
\* returns None.
RequestStep(f) ==
  /\ pc[f] \in RequestPcs
  /\ IF trading_config.max_retries <= 0
     THEN LET r == Flow(pc[f], loc[f], sessions, "ReturnNone", 0) IN
          /\ Elapse(r, 0)
          /\ Resume(f, r, [NoCall EXCEPT !.result = "ReturnNone"])
          /\ slept' = 0
          /\ last_nonce' = IF r.fin THEN [a \in Accounts |-> NoNonce] ELSE last_nonce
     ELSE \E o \in Outcomes :
            LET res == AfterAttempt(o, attempt[f]) IN
            IF res = "retry"
            THEN /\ attempt' = [attempt EXCEPT ![f] = @ + 1]   \* after the backoff sleep
                 /\ http' = Observe(o, attempt[f], res)
                 /\ slept' = SleptBefore(attempt[f]) + Backoff(attempt[f])
                 /\ Sent(f, Step(pc[f], loc[f], sessions))
                 /\ UNCHANGED <<sessions, active_session, schedVars, pc, loc, request,
                                clock>>
            ELSE \E x \in Drawn(pc[f], res) :
                   LET r == Flow(pc[f], loc[f], sessions, res, x) IN
                   /\ Elapse(r, 1)
                   /\ Resume(f, r, Observe(o, attempt[f], res))
                   /\ slept' = IF r.fin THEN 0 ELSE SleptBefore(attempt[f])
                   /\ Sent(f, r)
  /\ UNCHANGED <<trading_config, env, is_running, extCalls, stops>>

\* A tick of `await asyncio.sleep(duration)`.
HoldTick(f) ==
  /\ pc[f] = "hold"
  /\ IF loc[f].wait > 1
     THEN /\ loc' = [loc EXCEPT ![f].wait = @ - 1]
          /\ UNCHANGED <<sessions, active_session, schedVars, pc, attempt, http,
                         request, clock>>
     ELSE /\ clock' = clock + 1
          /\ Resume(f, HoldOver(loc[f], sessions), http)
  /\ UNCHANGED <<trading_config, env, is_running, last_nonce, slept, extCalls, stops>>

\* ------------------------------------------------------------ specification
Init ==
  /\ \E sc \in Scenarios : trading_config = sc[1] /\ env = sc[2]
  /\ sessions = <<>>
  /\ active_session = NoSession
  /\ is_running = FALSE
  /\ cyclePc = "not_started"
  /\ daily_sessions = 0
  /\ session_num = 0
  /\ delayLeft = 0
  /\ pc = [f \in Invokers |-> "idle"]
  /\ loc = [f \in Invokers |-> NullLoc]
  /\ attempt = [f \in Invokers |-> 0]
  /\ http = NoCall
  /\ request = [f \in Invokers |-> NoRequest]
  /\ clock = 0
  /\ last_nonce = [a \in Accounts |-> NoNonce]
  /\ slept = 0
  /\ slotsRun = 0
  /\ extCalls = 0
  /\ stops = 0

Next ==
  \/ StartCycle
  \/ DelayTick
  \/ Stop
  \/ ExtInvoke
  \/ \E f \in Invokers : RequestStep(f)
  \/ \E f \in Invokers : HoldTick(f)

Spec == Init /\ [][Next]_vars

\* The event loop runs every coroutine that is ready: the scheduler's own
\* steps are taken as long as they stay possible.
FairSpec ==
  /\ Spec
  /\ WF_vars(StartCycle)
  /\ WF_vars(DelayTick)
  /\ WF_vars(RequestStep("sched"))
  /\ WF_vars(HoldTick("sched"))

\* ===================================================================== claims
CleanupPcs == {"cleanup_list", "cleanup_cancel"}

\* An invocation of execute_delta_neutral_session happens in this step.
Invoked == extCalls' # extCalls \/ slotsRun' # slotsRun

\* ---------------------------------------------------------------------- C1
\* C1: at most one session is in Opening, Holding or Closing, and it is the
\* active session, also when another task invokes the engine while a session
\* is in progress; an invocation that finds an active session leaves
\* active_session, the history and both frames (so: the orders placed) as
\* they are.
AtMostOneActive ==
  /\ Cardinality({i \in DOMAIN sessions : sessions[i].state \in ActiveStates}) <= 1
  /\ \A i \in DOMAIN sessions :
       sessions[i].state \in ActiveStates => active_session = i

RejectedInvocationIsNoOp ==
  (Invoked /\ active_session # NoSession)
    => UNCHANGED <<sessions, active_session, pc, loc, attempt>>

\* C1: always at most one active session, and a rejected invocation changes nothing.
C1_SingleActiveSession ==
  []AtMostOneActive /\ [][RejectedInvocationIsNoOp]_vars

\* Another task has invoked the engine while the scheduler's session, the only
\* one there is, was in progress.
C1_Witness ==
  /\ extCalls >= 1
  /\ pc["ext"] = "idle"
  /\ pc["sched"] \in RequestPcs
  /\ Len(sessions) = 1
  /\ active_session = 1

\* ---------------------------------------------------------------------- C2
\* C2: a _make_request call whose first k attempts fail in transport and whose
\* next attempt succeeds returns after k + 1 attempts; a call all of whose
\* attempts fail in transport ends in an error after exactly max_retries
\* attempts; no call returns without a successful response.
Succeeded(o) == ~o.transport /\ o.status = 200 /\ Json(o.body) = "data"

CallEnded == http.result \notin {"none", "pending"}

\* C2: the retry contract of _make_request, for every configured max_retries.
C2_RetryContract ==
  /\ http.result \in {"Return", "ReturnNone"} => Succeeded(http.last)
  /\ (http.attempts = http.transient + 1 /\ Succeeded(http.last))
       => http.result = "Return" /\ http.transient < trading_config.max_retries
  /\ (CallEnded /\ http.attempts = http.transient)
       => http.result = "ClientError" /\ http.attempts = trading_config.max_retries
  /\ http.result = "pending" => http.attempts < trading_config.max_retries

\* ---------------------------------------------------------------------- C3
\* C3: after an attempt that received a response with a non-success status,
\* whatever its body, the call has ended in an API error: it is not pending
\* for another attempt.
C3_StatusErrorNotRetried ==
  (~http.last.transport /\ http.last.status \notin {0, 200})
    => http.result = "ApiError"

\* ---------------------------------------------------------------------- C4
\* C4: when a session becomes Settled, exactly four orders have been issued for
\* it, an opening and a closing market order per account, all for the
\* session's symbol and of one size; the long account opens with BUY and the
\* other with SELL, and each account closes with the reverse of its opening.
Issued(l, acct, leg) ==
  {i \in DOMAIN l.orders : l.orders[i].account = acct /\ l.orders[i].leg = leg}

SideOf(l, acct, leg) == l.orders[CHOOSE i \in Issued(l, acct, leg) : TRUE].side

Reverse(side) == IF side = "BUY" THEN "SELL" ELSE "BUY"

FourOrders(l, ses) ==
  /\ Len(l.orders) = 4
  /\ \A a \in Accounts, leg \in {"open", "close"} :
       Cardinality(Issued(l, a, leg)) = 1
  /\ \A i \in DOMAIN l.orders :
       /\ l.orders[i].symbol = ses.symbol
       /\ l.orders[i].type = "MARKET"
       /\ l.orders[i].quantity = l.orders[1].quantity
  /\ l.orders[1].quantity \in PositionSizes
  /\ SideOf(l, 0, "open") = IF ses.account1_long THEN "BUY" ELSE "SELL"
  /\ SideOf(l, 1, "open") = Reverse(SideOf(l, 0, "open"))
  /\ SideOf(l, 1, "close") = Reverse(SideOf(l, 0, "close"))
  /\ \A a \in Accounts : SideOf(l, a, "close") = Reverse(SideOf(l, a, "open"))

Settles(f) ==
  /\ pc[f] # "idle"
  /\ sessions[loc[f].sid].state # "Settled"
  /\ sessions'[loc[f].sid].state = "Settled"

\* C4: every step that settles a session finds its four orders issued as claimed.
C4_SettledSessionHasFourOrders ==
  [][\A f \in Invokers : Settles(f) => FourOrders(loc[f], sessions[loc[f].sid])]_vars

\* A session with account 0 short has settled on the second symbol.
C4_Witness ==
  \E i \in DOMAIN sessions :
    /\ sessions[i].state = "Settled"
    /\ sessions[i].symbol = "BTC-USDC"
    /\ ~sessions[i].account1_long

\* ---------------------------------------------------------------------- C5
\* C5: once execute_delta_neutral_session has returned, whichever step of the
\* session or of its cleanup failed, active_session is empty: with no
\* invocation in progress the slot is free, and a failed session is never the
\* active one once its invocation is over.
C5_SlotClearedOnReturn ==
  (\A f \in Invokers : pc[f] = "idle") => active_session = NoSession

\* A session failed, and a later one ran to Settled.
C5_Witness ==
  \E i, j \in DOMAIN sessions :
    i < j /\ sessions[i].state = "Failed" /\ sessions[j].state = "Settled"

\* ---------------------------------------------------------------------- C6
\* C6: when the invocation of a failed session returns, close_all_orders has
\* been invoked for the session's symbol on account 0 and on account 1.
CleanedBoth(l) ==
  \A a \in Accounts :
    \E i \in DOMAIN l.cleaned :
      l.cleaned[i] = [account |-> a, symbol |-> sessions[l.sid].symbol]

\* C6: no failed session's invocation returns before both accounts were cleaned.
C6_CleanupOnBothAccounts ==
  [][\A f \in Invokers :
       (pc[f] \in CleanupPcs /\ pc'[f] = "idle") => CleanedBoth(loc[f])]_vars

\* ---------------------------------------------------------------------- C7
\* C7: when the slot's session ends and stop() was requested during it,
\* run_daily_cycle is over: it does not go into the inter-session delay.
C7_StopSkipsDelay ==
  [][(cyclePc = "session" /\ ~is_running /\ cyclePc' # "session")
       => cyclePc' = "done"]_vars

\* ---------------------------------------------------------------------- C8
\* C8: once stop() has been requested during run_daily_cycle, neither the hold
\* of its session nor its inter-session delay goes on counting down its
\* remaining duration.
CycleStopRequested ==
  stops > 0 /\ ~is_running /\ cyclePc \in {"session", "delay"}

\* C8: after a stop request neither wait of the cycle counts down further.
C8_WaitsAreCancellable ==
  [][CycleStopRequested =>
       /\ ~(pc["sched"] = "hold" /\ pc'["sched"] = "hold"
            /\ loc'["sched"].wait < loc["sched"].wait)
       /\ ~(cyclePc = "delay" /\ cyclePc' = "delay" /\ delayLeft' < delayLeft)]_vars

\* ---------------------------------------------------------------------- C9
\* C9: with no stop requested, run_daily_cycle runs one slot after the other,
\* never more than the chosen number, has run exactly the chosen number when
\* it is over, however many sessions failed, and it is eventually over.
SlotsInOrder ==
  /\ slotsRun <= daily_sessions
  /\ cyclePc \in {"session", "delay"} => slotsRun = session_num + 1
  /\ (cyclePc = "done" /\ stops = 0) => slotsRun = daily_sessions

\* C9: the slots run in order, all of them when no stop is requested, and the
\* cycle is eventually over.
C9_CycleRunsAllSlots ==
  []SlotsInOrder /\ <>(stops > 0 \/ cyclePc = "done")

\* A cycle of two slots is over, no stop was requested, both sessions failed.
C9_Witness ==
  /\ cyclePc = "done"
  /\ stops = 0
  /\ daily_sessions = 2
  /\ Len(sessions) = 2
  /\ \A i \in DOMAIN sessions : sessions[i].state = "Failed"

\* --------------------------------------------------------------------- C10
\* C10: after a successful listing close_all_orders has, at every moment, sent
\* one cancel request for each listed order up to the one it is at, in list
\* order and on its own account; it ends only after the last listed order,
\* and then without an error, also when cancels failed; an empty listing ends
\* it with no cancel request and no error.
CancelsFollowListing(l) ==
  /\ l.ci \in 1..Len(l.open_orders)
  /\ Len(l.cancels) = l.ci
  /\ \A i \in 1..l.ci :
       l.cancels[i] = [account |-> l.cacct, id |-> l.open_orders[i]]

CloseAllEndsAfterLast(f) ==
  pc[f] = "cleanup_cancel" =>
    /\ (pc'[f] = "cleanup_cancel" /\ loc'[f] # loc[f])
         => /\ loc'[f].ci = loc[f].ci + 1
            /\ loc'[f].open_orders = loc[f].open_orders
            /\ loc'[f].cacct = loc[f].cacct
    /\ pc'[f] # "cleanup_cancel"
         => /\ loc[f].ci = Len(loc[f].open_orders)
            /\ (loc[f].cacct = 0
                  => /\ pc'[f] = "cleanup_list"
                     /\ loc'[f].cacct = 1
                     /\ loc'[f].cao = [account |-> 0, listed |-> loc[f].ci,
                                       cancelled |-> loc[f].ci,
                                       failed |-> loc'[f].cao.failed,
                                       done |-> TRUE])

\* C10: close_all_orders cancels each listed order once, in order, to the last.
C10_CloseAllCancelsEachListed ==
  /\ [](\A f \in Invokers :
          /\ pc[f] = "cleanup_cancel" => CancelsFollowListing(loc[f])
          /\ pc[f] = "cleanup_list" => loc[f].cancels = <<>>
          /\ loc[f].cao.done => loc[f].cao.cancelled = loc[f].cao.listed)
  /\ [][\A f \in Invokers : CloseAllEndsAfterLast(f)]_vars

\* close_all_orders of account 0 has ended without an error after a listing of
\* two orders, with a cancel that failed.
C10_Witness ==
  \E f \in Invokers :
    /\ loc[f].cao.done
    /\ loc[f].cao.failed
    /\ loc[f].cao.listed = 2
    /\ loc[f].cao.cancelled = 2

\* --------------------------------------------------------------------- C11
\* C11: every request _make_request builds carries X-API-KEY; it carries
\* X-NONCE and X-SIGNATURE exactly when its path is not public, and the
\* signature is then made with the secret of the request's account over the
\* nonce, the method and the path, in this order.  The market-data request
\* carries neither; the order, open-order, cancel and balance requests carry
\* both.
AuthHeaders == {"X-NONCE", "X-SIGNATURE"}

Authenticated(r) == AuthHeaders \subseteq DOMAIN r.headers

SignedAsClaimed(r) ==
  r.headers["X-SIGNATURE"] =
    [hmac_sha256_key |-> account_configs[r.account_index].secret_key,
     payload |-> <<r.headers["X-NONCE"], r.method>> \o r.endpoint]

HeadersAsClaimed(r) ==
  /\ "X-API-KEY" \in DOMAIN r.headers
  /\ IF r.endpoint[1] = "public"
     THEN AuthHeaders \cap DOMAIN r.headers = {}
     ELSE Authenticated(r) /\ SignedAsClaimed(r)

\* C11: the headers of every request built, by the kind of the request.
C11_AuthHeadersOnPrivatePathsOnly ==
  /\ \A f \in Invokers :
       pc[f] \in RequestPcs =>
         /\ HeadersAsClaimed(request[f])
         /\ Authenticated(request[f]) <=> pc[f] \notin {"open_price", "close_price"}
  /\ \A a \in Accounts :
       /\ HeadersAsClaimed(get_balance(a, clock))
       /\ Authenticated(get_balance(a, clock))

\* The closing price is being fetched, after orders were sent for both
\* accounts.
C11_Witness ==
  \E f \in Invokers :
    /\ pc[f] = "close_price"
    /\ ~Authenticated(request[f])
    /\ \A a \in Accounts : last_nonce[a] # NoNonce

\* --------------------------------------------------------------------- C12
\* C12: whenever an authenticated request is waiting to be sent or sent
\* again, for an order of account i or for the cleanup of account i, its API
\* key, the secret of its signature and its connection are those of
\* account i; a retry sends the request the call built.
MadeFor(f) ==
  IF pc[f] \in CleanupPcs THEN loc[f].cacct
  ELSE loc[f].orders[Len(loc[f].orders)].account

OwnCredentials(r, i) ==
  /\ r.headers["X-API-KEY"] = account_configs[i].api_key
  /\ r.headers["X-SIGNATURE"].hmac_sha256_key = account_configs[i].secret_key
  /\ r.connection = sessions_per_account[i]

RetrySendsSameRequest ==
  \A f \in Invokers :
    (pc'[f] = pc[f] /\ attempt'[f] > attempt[f]) => request'[f] = request[f]

\* C12: no request of one account goes out with the other account's
\* credentials or connection.
C12_CredentialsOfRequestAccount ==
  /\ [](\A f \in Invokers :
          (pc[f] \in RequestPcs /\ Authenticated(request[f]))
            => OwnCredentials(request[f], MadeFor(f)))
  /\ [][RetrySendsSameRequest]_vars

\* A request of the cleanup of account 1 is about to be sent a second time,
\* after requests of account 0 were sent.
C12_Witness ==
  \E f \in Invokers :
    /\ pc[f] \in CleanupPcs
    /\ attempt[f] >= 1
    /\ request[f].account_index = 1
    /\ last_nonce[0] # NoNonce

\* --------------------------------------------------------------------- C13
\* C13: in every configuration with min <= max, every session of the history
\* has a planned_duration between min_session_duration and
\* max_session_duration, and holds for it; the count a cycle has chosen lies
\* between min_daily_sessions and max_daily_sessions, and the cycle has
\* started no more slots than the count, so no more than max_daily_sessions.
ValidConfiguration ==
  /\ trading_config.min_session_duration <= trading_config.max_session_duration
  /\ trading_config.min_daily_sessions <= trading_config.max_daily_sessions

\* C13: the drawn duration and the drawn count stay within their bounds.
C13_DrawsWithinConfiguredRanges ==
  ValidConfiguration =>
    /\ \A i \in DOMAIN sessions :
         /\ sessions[i].planned_duration >= trading_config.min_session_duration
         /\ sessions[i].planned_duration <= trading_config.max_session_duration
    /\ \A f \in Invokers :
         pc[f] = "hold" => loc[f].wait <= trading_config.max_session_duration
    /\ cyclePc # "not_started" =>
         /\ daily_sessions >= trading_config.min_daily_sessions
         /\ daily_sessions <= trading_config.max_daily_sessions
    /\ slotsRun <= trading_config.max_daily_sessions

\* A cycle that chose the largest count is over, with a session of the
\* longest duration in a configuration that allows shorter ones.
C13_Witness ==
  /\ cyclePc = "done"
  /\ daily_sessions = trading_config.max_daily_sessions
  /\ slotsRun = daily_sessions
  /\ \E i \in DOMAIN sessions :
       /\ sessions[i].planned_duration = trading_config.max_session_duration
       /\ trading_config.min_session_duration < sessions[i].planned_duration

\* --------------------------------------------------------------------- C14
\* C14: when a failed session's invocation returns after exactly one leg of
\* its opening pair or of its closing pair was placed, and every request of
\* its cleanup on both accounts succeeded, the orders of the session that
\* were placed, taken as executed, leave the two accounts together with no
\* position on the session's symbol.
RECURSIVE NetPosition(_, _)
NetPosition(l, n) ==
  IF n = 0 THEN 0
  ELSE NetPosition(l, n - 1)
         + (IF l.orders[n].side = "BUY" THEN l.orders[n].quantity
            ELSE 0 - l.orders[n].quantity)

OneLegOfPairPlaced(l) ==
  Len(l.orders) \in {2, 4} /\ l.filled = Len(l.orders) - 1

CleanupSucceeded(before, after) ==
  /\ before.cacct = 1
  /\ before.cao.account = 0 /\ before.cao.done /\ ~before.cao.failed
  /\ after.cleanup = "done"

\* C14: the cleanup path flattens what a half-placed pair has opened.
C14_CleanupFlattensPosition ==
  [][\A f \in Invokers :
       (/\ pc[f] \in CleanupPcs
        /\ pc'[f] = "idle"
        /\ OneLegOfPairPlaced(loc[f])
        /\ CleanupSucceeded(loc[f], loc'[f]))
         => NetPosition(loc[f], loc[f].filled) = 0]_vars

\* --------------------------------------------------------------------- C15
\* C15: the orders of a session are issued in the order opening of account
\* 0, opening of account 1, closing of account 0, closing of account 1, one
\* per step, each only after every earlier one has returned; the first only
\* when the price fetch has returned, the second and the fourth only when the
\* order before them has returned, the third only when both opening orders
\* have returned and the hold, begun with planned_duration when the second
\* opening order returned, has run down.
FixedOrder(l) ==
  /\ Len(l.orders) <= 4
  /\ \A i \in DOMAIN l.orders :
       /\ l.orders[i].account = (i - 1) % 2
       /\ l.orders[i].leg = IF i <= 2 THEN "open" ELSE "close"
  /\ l.filled \in {Len(l.orders) - 1, Len(l.orders)} \cap 0..4

StepAllowed(f) ==
  LET l == loc[f]
      n == Len(l.orders)
      returned == http'.result = "Return" /\ loc'[f].filled = n
  IN /\ Len(loc'[f].orders) > n =>
          /\ Len(loc'[f].orders) = n + 1
          /\ CASE n = 0 -> pc[f] = "open_price" /\ http'.result = "Return"
               [] n = 1 -> pc[f] = "open0" /\ returned
               [] n = 2 -> /\ pc[f] = "hold" /\ l.wait <= 1 /\ l.filled = 2
                           /\ sessions[l.sid].state = "Holding"
               [] n = 3 -> pc[f] = "close0" /\ returned
               [] OTHER -> FALSE
     /\ (pc'[f] = "hold" /\ pc[f] # "hold") =>
          /\ pc[f] = "open1" /\ returned
          /\ loc'[f].wait = sessions[l.sid].planned_duration
     /\ (pc'[f] = "hold" /\ pc[f] = "hold" /\ loc'[f] # l) =>
          loc'[f].wait = l.wait - 1

\* C15: the steps of a session happen in the fixed order, each only after
\* the earlier ones succeeded.
C15_StepsInOrderAfterSuccess ==
  /\ [](\A f \in Invokers : pc[f] # "idle" => FixedOrder(loc[f]))
  /\ [][\A f \in Invokers : pc[f] # "idle" => StepAllowed(f)]_vars

\* The second closing order is out, after a hold of more than one tick.
C15_Witness ==
  \E f \in Invokers :
    /\ pc[f] = "close1"
    /\ Len(loc[f].orders) = 4
    /\ loc[f].filled = 3
    /\ loc[f].duration >= 2

\* --------------------------------------------------------------------- C16
\* C16: a call that goes to another attempt after its failed attempt n has
\* slept 2^n time units since that attempt, and 2^0 + ... + 2^n since it
\* began; a call that has ended has not slept after its last attempt; a call
\* that has used up its max_retries = m attempts has ended in the transport
\* error of its last attempt, having slept 2^0 + ... + 2^(m-2) time units.
RECURSIVE BackoffTotal(_)
BackoffTotal(k) == IF k <= 0 THEN 0 ELSE BackoffTotal(k - 1) + 2 ^ (k - 1)

SleepsAsClaimed ==
  /\ http.result = "pending" => slept = BackoffTotal(http.attempts)
  /\ CallEnded => slept = BackoffTotal(http.attempts - 1)
  /\ (CallEnded /\ http.attempts = http.transient /\ http.attempts > 0) =>
       /\ http.attempts = trading_config.max_retries
       /\ http.result = "ClientError"
       /\ slept = BackoffTotal(trading_config.max_retries - 1)

RetryWaitsPowerOfTwo ==
  \A f \in Invokers :
    (pc'[f] = pc[f] /\ attempt'[f] > attempt[f]) =>
      /\ attempt'[f] = attempt[f] + 1
      /\ attempt'[f] < trading_config.max_retries
      /\ slept' = (IF attempt[f] = 0 THEN 0 ELSE slept) + 2 ^ attempt[f]

\* C16: the waits between the attempts of a call double from one time unit.
C16_BackoffDoubles ==
  []SleepsAsClaimed /\ [][RetryWaitsPowerOfTwo]_vars

\* A call has used up three attempts, all failed in transport.
C16_Witness ==
  /\ http.result = "ClientError"
  /\ http.attempts = 3
  /\ http.transient = 3
  /\ slept = 3

\* --------------------------------------------------------------------- C17
\* C17: of the sessions that have ended, those that settled are marked
\* closed with an end_time, and those that failed have closed = false and no
\* end_time, in the history as well.
C17_ClosedOnlyWhenSettled ==
  \A i \in DOMAIN sessions :
    /\ sessions[i].state = "Settled" => sessions[i].closed /\ sessions[i].end_time
    /\ sessions[i].state = "Failed" => ~sessions[i].closed /\ ~sessions[i].end_time

\* --------------------------------------------------------------------- C18
\* C18: every authenticated request put on the wire, a retry attempt as any
\* other, carries a nonce greater than the nonce of the request last sent
\* for the same account: no nonce is sent twice and nonces never decrease.
Transmits(f) ==
  /\ pc[f] \in RequestPcs
  /\ trading_config.max_retries > 0
  /\ attempt'[f] # attempt[f] \/ pc'[f] # pc[f] \/ loc'[f] # loc[f]

\* C18: the nonces sent for one account increase strictly.
C18_NonceUsedOnce ==
  [][\A f \in Invokers :
       (Transmits(f) /\ Authenticated(request[f]))
         => /\ request[f].headers["X-NONCE"] = ToString(request[f].nonce)
            /\ request[f].nonce > last_nonce[request[f].account_index]]_vars

\* --------------------------------------------------------------------- C19
\* C19: a settled session has both order ids; for a failed session, whose
\* cleanup is running, account1_order_id is set exactly when the opening
\* order of account 0 has returned, and account2_order_id exactly when the
\* opening order of account 1 has returned.
C19_OrderIdsOfPlacedOpenings ==
  /\ \A i \in DOMAIN sessions :
       sessions[i].state = "Settled" =>
         sessions[i].account1_order_id /\ sessions[i].account2_order_id
  /\ \A f \in Invokers :
       pc[f] \in CleanupPcs =>
         /\ sessions[loc[f].sid].state = "Failed"
         /\ sessions[loc[f].sid].account1_order_id <=> loc[f].filled >= 1
         /\ sessions[loc[f].sid].account2_order_id <=> loc[f].filled >= 2

\* --------------------------------------------------------------------- C20
\* C20: once stop() has been called, before run_daily_cycle began, during a
\* session or during a delay, run_daily_cycle starts no session.
SchedulerStartsSession ==
  pc["sched"] = "idle" /\ pc'["sched"] = "open_price"

\* C20: no step after a call of stop() starts a session of the cycle.
C20_StopNeverLost ==
  [][stops > 0 => ~SchedulerStartsSession]_vars

====
